---- MODULE Spec2Model ----
(***************************************************************************)
(* Referral crediting of main.py (aiogram bot on PostgreSQL): the three    *)
(* tables of INIT_SQL, the store operations ensure_user, apply_referral,   *)
(* add_pending_ref and pop_pending_ref at the granularity of one SQL       *)
(* statement, and the handlers on_start, cmd_check, cb_check_sub and       *)
(* auto_check_after_delay as concurrent tasks that yield at every await.   *)
(*                                                                         *)
(* PostgreSQL runs at READ COMMITTED.  A statement outside a transaction   *)
(* commits on its own.  Inside apply_referral's transaction every write is *)
(* kept in the task's write set (tx) until COMMIT; a writer that meets an  *)
(* uncommitted write of another transaction on the same key waits for it.  *)
(***************************************************************************)
EXTENDS Integers, Sequences, FiniteSets, TLC

\* ---------------------------------------------------------------- bounds
NumIds == 3
NumTasks == 3
MaxInvocations == 2
MaxChannels == 2

\* BONUS_PER_REF defaults to 1.0; balances are counted in that unit.
BONUS_PER_REF == 1

Ids == 1..NumIds
Tasks == 1..NumTasks
NULL == 0

VARIABLES
    users,          \* table users: user_id -> row
    referrals,      \* table referrals: its rows in the order of their commit
    pending_refs,   \* table pending_refs: set of rows
    SUB_CHANNELS,   \* configured channels, fixed at start-up
    tasks,          \* the running handlers, one record per task
    tx,             \* uncommitted writes of each task's transaction
    launched,       \* number of handler invocations so far
    notified,       \* referred id -> ReferralApplied notifications emitted
    applied_ret,    \* referred id -> apply_referral calls that returned True
    staged,         \* the referred ids add_pending_ref has written a claim for
    double_take,    \* a pop returned a referrer whose row another pop had taken
    clobbered,      \* a pop's DELETE removed a claim written after its SELECT
    phase, scen, variant, step, base, snaps    \* scenario driver (SpecScen)

store == <<users, referrals, pending_refs>>
history == <<notified, applied_ret, staged, double_take, clobbered>>
driver == <<phase, scen, variant, step, base, snaps>>
vars == <<users, referrals, pending_refs, SUB_CHANNELS, tasks, tx, launched,
          notified, applied_ret, staged, double_take, clobbered,
          phase, scen, variant, step, base, snaps>>

\* ------------------------------------------------------------ schema
\* A users row as INSERT INTO users(user_id) creates it (the column defaults).
NewRow == [exists |-> TRUE, ref_by |-> NULL, balance |-> 0, referrals_count |-> 0]
\* No row for that user_id.
NoRow == [exists |-> FALSE, ref_by |-> NULL, balance |-> 0, referrals_count |-> 0]

\* What get_chat_member answers: a ChatMember status ("left" stands for every status
\* outside the allowed three), or "error" when the call raises.
Statuses == {"creator", "administrator", "member", "left", "error"}

\* ------------------------------------------------------------ tasks
IdleTask == [kind |-> "none", pc |-> "idle", user |-> 0, ref |-> 0, forced |-> "any"]
\* The handler has returned.
DoneTask == [kind |-> "none", pc |-> "done", user |-> 0, ref |-> 0, forced |-> "any"]
\* The handler was ended by an exception or by the death of the process while at
\* `at`, working for referred id `user`.
FailedTask(at, user) == [kind |-> at, pc |-> "failed", user |-> user, ref |-> 0, forced |-> "any"]
EmptyTx == [wr |-> {}, rows |-> [i \in Ids |-> NoRow], refs |-> <<>>]

Live(t) == tasks[t].pc \notin {"idle", "done", "failed"}

\* Another transaction holds an uncommitted write (insert or update) of users row i.
LockedByOther(i, t) == \E o \in Tasks \ {t} : i \in tx[o].wr
\* Mutant: the insert does not wait for a concurrent insert of the same key.
RefLockedByOther_never(r, t) == FALSE

\* Another transaction holds an uncommitted referrals row for referred id r.
RefLockedByOther(r, t) ==
    \E o \in Tasks \ {t} : \E k \in 1..Len(tx[o].refs) : tx[o].refs[k].referred_id = r
\* The users row i as task t's transaction sees it.
View(t, i) == IF i \in tx[t].wr THEN tx[t].rows[i] ELSE users[i]

\* ------------------------------------------------------- subscription gate
\* Mutant: only a status outside the allow-list refuses; an exception lets through.
is_member_of_open(status) == status # "left"

\* is_member_of: an exception of get_chat_member ("error") is caught and answers
\* False; otherwise the status must be one of the three allowed strings.
is_member_of(status) == status \in {"member", "administrator", "creator"}

\* Mutant: the loop returns after its first channel.
SubscribedFrom_first(ans, k) ==
    IF k > Len(SUB_CHANNELS) THEN TRUE ELSE is_member_of(ans[k])

RECURSIVE SubscribedFrom(_, _)
\* The for loop of is_subscribed_everywhere from channel k on.
SubscribedFrom(ans, k) ==
    IF k > Len(SUB_CHANNELS) THEN TRUE
    ELSE IF ~is_member_of(ans[k]) THEN FALSE
    ELSE SubscribedFrom(ans, k + 1)

\* ans[k] is what the membership authority answers for channel k at this query.
is_subscribed_everywhere(ans) ==
    IF SUB_CHANNELS = <<>> THEN TRUE ELSE SubscribedFrom(ans, 1)

Answers == [1..Len(SUB_CHANNELS) -> Statuses]

\* ------------------------------------------------------- row operations
\* Mutant: the upsert replaces the whole row by a fresh one.
EnsureRow_reset(row) == NewRow

\* INSERT INTO users(user_id, ...) ... ON CONFLICT: a missing row is created with
\* the defaults, an existing row keeps every modelled column.
EnsureRow(row) == IF row.exists THEN row ELSE NewRow

\* Mutant: the UPDATE of ref_by is missing.
SetRefBy_skip(row, referrer_id) == row

\* UPDATE users SET ref_by = COALESCE(ref_by, $1)
SetRefBy(row, referrer_id) ==
    [row EXCEPT !.ref_by = IF @ = NULL THEN referrer_id ELSE @]

\* Mutant: the bonus is credited twice.
CreditRow_twice(row) ==
    [row EXCEPT !.referrals_count = @ + 2, !.balance = @ + 2 * BONUS_PER_REF]

\* Mutant: the credit forgets the counter.
CreditRow_balance_only(row) == [row EXCEPT !.balance = @ + BONUS_PER_REF]

\* UPDATE users SET referrals_count = referrals_count + 1, balance = balance + $1
CreditRow(row) ==
    [row EXCEPT !.referrals_count = @ + 1, !.balance = @ + BONUS_PER_REF]

\* Mutant: referred_id without its UNIQUE constraint.
UniqueViolation_never(rows, r) == FALSE

\* referred_id BIGINT NOT NULL UNIQUE: the committed rows that make an insert of
\* referred id r fail.
UniqueViolation(rows, r) == \E k \in 1..Len(rows) : rows[k].referred_id = r

\* Mutant: ON CONFLICT (referred_id) DO NOTHING, the first claim stays.
UpsertPending_keep(rows, referred_id, referrer_id) ==
    IF \E p \in rows : p.referred_id = referred_id THEN rows
    ELSE rows \cup {[referred_id |-> referred_id, referrer_id |-> referrer_id]}

\* INSERT INTO pending_refs ... ON CONFLICT (referred_id) DO UPDATE SET referrer_id
UpsertPending(rows, referred_id, referrer_id) ==
    {p \in rows : p.referred_id # referred_id}
        \cup {[referred_id |-> referred_id, referrer_id |-> referrer_id]}

\* Mutant: pop_pending_ref without its DELETE.
DeletePending_none(rows, referred_id) == rows

\* Mutant: the DELETE spares the row it was meant for.
DeletePending_others(rows, referred_id) == {p \in rows : p.referred_id = referred_id}

\* DELETE FROM pending_refs WHERE referred_id = $1
DeletePending(rows, referred_id) == {p \in rows : p.referred_id # referred_id}

\* Mutant: on_start without `referrer_id != u.user_id`.
StartClaims_any(user_id, payload) == payload # 0

\* on_start: the payload is a number (0 stands for no payload or a non-digit one)
\* and names somebody else.
StartClaims(user_id, payload) == payload # 0 /\ payload # user_id

\* apply_referral's first test.
SelfReferral(referrer_id, referred_id) == referrer_id = referred_id

\* ------------------------------------------------------- what each caller does
\* with apply_referral's result: the pc it continues at.
on_start_after(applied) == IF applied THEN "notify" ELSE "done"
\* Mutant: /check announces a referral whatever apply_referral returned.
cmd_check_after_always(applied) == "notify"
cmd_check_after(applied) == IF applied THEN "notify" ELSE "done"
cb_check_sub_after(applied) == IF applied THEN "notify" ELSE "done"
\* Mutant: the automatic re-check credits silently.
auto_check_after_silent(applied) == "done"
auto_check_after(applied) == IF applied THEN "notify" ELSE "done"

AfterApply(kind, applied) ==
    CASE kind = "start" -> on_start_after(applied)
      [] kind = "check" -> cmd_check_after(applied)
      [] kind = "cb" -> cb_check_sub_after(applied)
      [] kind = "auto" -> auto_check_after(applied)
      [] OTHER -> "done"

\* The task record once apply_referral has returned `applied` to its caller.
Returned(t, applied) ==
    IF AfterApply(tasks[t].kind, applied) = "done" THEN DoneTask
    ELSE [tasks[t] EXCEPT !.pc = AfterApply(tasks[t].kind, applied)]

\* Task t calls apply_referral(a, r): the self-referral test returns False at once,
\* otherwise the transaction is opened and the first statement is next.
call_apply_referral(t, a, r) ==
    IF SelfReferral(a, r)
    THEN tasks' = [tasks EXCEPT ![t] = Returned(t, FALSE)]
    ELSE tasks' = [tasks EXCEPT ![t] = [@ EXCEPT !.pc = "ins_user", !.user = r, !.ref = a]]

\* ------------------------------------------------------- apply_referral
\* A direct call apply_referral(a, r) begins.
apply_enter(t) ==
    /\ tasks[t].pc = "call"
    /\ call_apply_referral(t, tasks[t].ref, tasks[t].user)
    /\ UNCHANGED <<store, SUB_CHANNELS, tx, launched, history, driver>>

\* INSERT INTO users(user_id) VALUES (referrer) ON CONFLICT DO NOTHING.  Waits while
\* another transaction holds an uncommitted insert of the same key.
apply_ins_user(t) ==
    /\ tasks[t].pc = "ins_user"
    /\ LET a == tasks[t].ref IN
        /\ users[a].exists \/ ~LockedByOther(a, t)
        /\ tx' = IF users[a].exists THEN tx
                 ELSE [tx EXCEPT ![t].wr = @ \cup {a}, ![t].rows[a] = NewRow]
    /\ tasks' = [tasks EXCEPT ![t].pc = "ins_ref"]
    /\ UNCHANGED <<store, SUB_CHANNELS, launched, history, driver>>

\* Mutant: the refused call keeps what its transaction wrote before the refusal.
apply_ins_ref_keep(t) ==
    /\ tasks[t].pc = "ins_ref"
    /\ LET a == tasks[t].ref
           r == tasks[t].user IN
        /\ ~RefLockedByOther(r, t)
        /\ IF UniqueViolation(referrals, r)
           THEN /\ users' = [i \in Ids |-> IF i \in tx[t].wr THEN tx[t].rows[i] ELSE users[i]]
                /\ tx' = [tx EXCEPT ![t] = EmptyTx]
                /\ tasks' = [tasks EXCEPT ![t] = Returned(t, FALSE)]
           ELSE /\ users' = users
                /\ tx' = [tx EXCEPT ![t].refs = Append(@, [referrer_id |-> a, referred_id |-> r])]
                /\ tasks' = [tasks EXCEPT ![t].pc = "upd_refby"]
    /\ UNCHANGED <<referrals, pending_refs, SUB_CHANNELS, launched, history, driver>>

\* INSERT INTO referrals(referrer_id, referred_id).  Waits for an uncommitted row of
\* the same referred id; a committed one raises UniqueViolationError, the handler
\* returns False and leaving the transaction block ends the aborted transaction.
apply_ins_ref(t) ==
    /\ tasks[t].pc = "ins_ref"
    /\ LET a == tasks[t].ref
           r == tasks[t].user IN
        /\ ~RefLockedByOther(r, t)
        /\ IF UniqueViolation(referrals, r)
           THEN /\ tx' = [tx EXCEPT ![t] = EmptyTx]
                /\ tasks' = [tasks EXCEPT ![t] = Returned(t, FALSE)]
           ELSE /\ tx' = [tx EXCEPT ![t].refs = Append(@, [referrer_id |-> a, referred_id |-> r])]
                /\ tasks' = [tasks EXCEPT ![t].pc = "upd_refby"]
    /\ UNCHANGED <<store, SUB_CHANNELS, launched, history, driver>>

\* UPDATE users SET ref_by = COALESCE(ref_by, referrer) WHERE user_id = referred.
\* Touches the row only if it is visible; waits for its row lock.
apply_upd_refby(t) ==
    /\ tasks[t].pc = "upd_refby"
    /\ LET a == tasks[t].ref
           r == tasks[t].user IN
        IF View(t, r).exists
        THEN /\ ~LockedByOther(r, t)
             /\ tx' = [tx EXCEPT ![t].wr = @ \cup {r}, ![t].rows[r] = SetRefBy(View(t, r), a)]
        ELSE tx' = tx
    /\ tasks' = [tasks EXCEPT ![t].pc = "credit"]
    /\ UNCHANGED <<store, SUB_CHANNELS, launched, history, driver>>

\* UPDATE users SET referrals_count = ..., balance = ... WHERE user_id = referrer.
apply_credit(t) ==
    /\ tasks[t].pc = "credit"
    /\ LET a == tasks[t].ref IN
        IF View(t, a).exists
        THEN /\ ~LockedByOther(a, t)
             /\ tx' = [tx EXCEPT ![t].wr = @ \cup {a}, ![t].rows[a] = CreditRow(View(t, a))]
        ELSE tx' = tx
    /\ tasks' = [tasks EXCEPT ![t].pc = "commit"]
    /\ UNCHANGED <<store, SUB_CHANNELS, launched, history, driver>>

\* The users table once transaction w has committed.
CommitUsers(w) == [i \in Ids |-> IF i \in w.wr THEN w.rows[i] ELSE users[i]]

\* Leaving `async with conn.transaction()` without an exception: COMMIT, return True.
apply_commit(t) ==
    /\ tasks[t].pc = "commit"
    /\ users' = CommitUsers(tx[t])
    /\ referrals' = referrals \o tx[t].refs
    /\ tx' = [tx EXCEPT ![t] = EmptyTx]
    /\ tasks' = [tasks EXCEPT ![t] = Returned(t, TRUE)]
    /\ applied_ret' = [applied_ret EXCEPT ![tasks[t].user] = @ + 1]
    /\ UNCHANGED <<pending_refs, SUB_CHANNELS, launched, notified, staged, double_take,
                   clobbered, driver>>

\* ------------------------------------------------------- pending_refs
\* add_pending_ref(user, referrer), then on_start's reply and, the gate having
\* failed, asyncio.create_task(auto_check_after_delay): the task goes on as the
\* automatic re-check of the same user.
add_pending_ref(t) ==
    /\ tasks[t].pc = "stage"
    /\ pending_refs' = UpsertPending(pending_refs, tasks[t].user, tasks[t].ref)
    /\ staged' = staged \cup {tasks[t].user}
    /\ tasks' = [tasks EXCEPT ![t] = [@ EXCEPT !.kind = "auto", !.pc = "sleep", !.ref = 0,
                                                 !.forced = "any"]]
    /\ UNCHANGED <<users, referrals, SUB_CHANNELS, tx, launched, notified, applied_ret,
                   double_take, clobbered, driver>>

\* pop_pending_ref, first statement: SELECT referrer_id FROM pending_refs.  With no
\* row the function returns None and each caller has nothing more to do.
pop_select(t) ==
    /\ tasks[t].pc = "pop_read"
    /\ IF \E p \in pending_refs : p.referred_id = tasks[t].user
       THEN \E p \in pending_refs :
                /\ p.referred_id = tasks[t].user
                /\ tasks' = [tasks EXCEPT ![t] = [@ EXCEPT !.pc = "pop_del",
                                                             !.ref = p.referrer_id]]
       ELSE tasks' = [tasks EXCEPT ![t] = DoneTask]
    /\ UNCHANGED <<store, SUB_CHANNELS, tx, launched, history, driver>>

\* pop_pending_ref, second statement: DELETE FROM pending_refs, then return the
\* referrer read before; the caller passes it to apply_referral.
pop_delete(t) ==
    /\ tasks[t].pc = "pop_del"
    /\ LET u == tasks[t].user IN
        /\ pending_refs' = DeletePending(pending_refs, u)
        /\ double_take' = (double_take \/ ~\E p \in pending_refs : p.referred_id = u)
        /\ clobbered' = (clobbered \/ \E p \in pending_refs :
                                          p.referred_id = u /\ p.referrer_id # tasks[t].ref)
        /\ call_apply_referral(t, tasks[t].ref, u)
    /\ UNCHANGED <<users, referrals, SUB_CHANNELS, tx, launched, notified, applied_ret,
                   staged, driver>>

\* ------------------------------------------------------- handlers
\* ans is an answer the membership authority may give task t here: any, unless a
\* scenario of SpecScen dictates the outcome of this task's query.
GateFits(t, ans) ==
    \/ tasks[t].forced = "any"
    \/ (tasks[t].forced = "pass") = is_subscribed_everywhere(ans)

\* ensure_user: the upsert of the sender's row (the SELECT after it only feeds the
\* reply).  Waits while a transaction holds an uncommitted write of that row.
on_start_ensure(t) ==
    /\ tasks[t].pc = "ensure"
    /\ ~LockedByOther(tasks[t].user, t)
    /\ users' = [users EXCEPT ![tasks[t].user] = EnsureRow(@)]
    /\ tasks' = [tasks EXCEPT ![t].pc = "gate"]
    /\ UNCHANGED <<referrals, pending_refs, SUB_CHANNELS, tx, launched, history, driver>>

\* on_start from the gate query to the branch on the payload.
on_start_gate(t, ans) ==
    /\ tasks[t].pc = "gate" /\ tasks[t].kind = "start"
    /\ GateFits(t, ans)
    /\ LET u == tasks[t].user
           payload == tasks[t].ref
           subscribed == is_subscribed_everywhere(ans) IN
        IF StartClaims(u, payload)
        THEN IF subscribed
             THEN call_apply_referral(t, payload, u)
             ELSE tasks' = [tasks EXCEPT ![t].pc = "stage"]
        ELSE tasks' = [tasks EXCEPT ![t] =
                    IF subscribed THEN DoneTask
                    ELSE [@ EXCEPT !.kind = "auto", !.pc = "sleep", !.ref = 0,
                                   !.forced = "any"]]
    /\ UNCHANGED <<store, SUB_CHANNELS, tx, launched, history, driver>>

\* Mutant: /check takes the pending claim whatever the gate answers.
cmd_check_ungated(t, ans) ==
    /\ tasks[t].pc = "gate" /\ tasks[t].kind = "check"
    /\ GateFits(t, ans)
    /\ tasks' = [tasks EXCEPT ![t] = [@ EXCEPT !.pc = "pop_read"]]
    /\ UNCHANGED <<store, SUB_CHANNELS, tx, launched, history, driver>>

\* cmd_check: the gate query; subscribed goes on to pop_pending_ref.
cmd_check(t, ans) ==
    /\ tasks[t].pc = "gate" /\ tasks[t].kind = "check"
    /\ GateFits(t, ans)
    /\ tasks' = [tasks EXCEPT ![t] =
            IF is_subscribed_everywhere(ans) THEN [@ EXCEPT !.pc = "pop_read"] ELSE DoneTask]
    /\ UNCHANGED <<store, SUB_CHANNELS, tx, launched, history, driver>>

\* cb_check_sub: the same for the "check_sub" button.
cb_check_sub(t, ans) ==
    /\ tasks[t].pc = "gate" /\ tasks[t].kind = "cb"
    /\ GateFits(t, ans)
    /\ tasks' = [tasks EXCEPT ![t] =
            IF is_subscribed_everywhere(ans) THEN [@ EXCEPT !.pc = "pop_read"] ELSE DoneTask]
    /\ UNCHANGED <<store, SUB_CHANNELS, tx, launched, history, driver>>

\* auto_check_after_delay: the sleep is over, the gate is queried.
auto_check_after_delay(t, ans) ==
    /\ tasks[t].pc = "sleep" /\ tasks[t].kind = "auto"
    /\ GateFits(t, ans)
    /\ tasks' = [tasks EXCEPT ![t] =
            IF is_subscribed_everywhere(ans) THEN [@ EXCEPT !.pc = "pop_read"] ELSE DoneTask]
    /\ UNCHANGED <<store, SUB_CHANNELS, tx, launched, history, driver>>

\* The caller's `if applied:` block: the message and notify_admins for the pair.
notify_admins(t) ==
    /\ tasks[t].pc = "notify"
    /\ notified' = [notified EXCEPT ![tasks[t].user] = @ + 1]
    /\ tasks' = [tasks EXCEPT ![t] = DoneTask]
    /\ UNCHANGED <<store, SUB_CHANNELS, tx, launched, applied_ret, staged, double_take,
                   clobbered, driver>>

\* ------------------------------------------------------- invocations
NewTask(kind, pc, user, ref, forced) ==
    [kind |-> kind, pc |-> pc, user |-> user, ref |-> ref, forced |-> forced]

\* The next free slot; each slot runs one invocation.
NextSlot == launched + 1

\* The handler a call record names starts in slot t; "credit" is a direct call
\* apply_referral(ref, user) with no handler around it.
Launch(t, call) ==
    CASE call.kind = "start" ->
            tasks' = [tasks EXCEPT ![t] = NewTask("start", "ensure", call.user, call.ref, call.gate)]
      [] call.kind = "check" ->
            tasks' = [tasks EXCEPT ![t] = NewTask("check", "gate", call.user, 0, call.gate)]
      [] call.kind = "cb" ->
            tasks' = [tasks EXCEPT ![t] = NewTask("cb", "gate", call.user, 0, call.gate)]
      [] call.kind = "auto" ->
            tasks' = [tasks EXCEPT ![t] = NewTask("auto", "sleep", call.user, 0, call.gate)]
      [] call.kind = "credit" ->
            tasks' = [tasks EXCEPT ![t] = NewTask("credit", "call", call.user, call.ref, call.gate)]

Call(kind, user, ref, gate) == [kind |-> kind, user |-> user, ref |-> ref, gate |-> gate]

\* /start with any payload, /check, the check_sub button, a direct apply_referral.
Calls ==
    {Call("start", u, p, "any") : u \in Ids, p \in 0..NumIds}
        \cup {Call("check", u, 0, "any") : u \in Ids}
        \cup {Call("cb", u, 0, "any") : u \in Ids}
        \cup {Call("credit", r, a, "any") : r \in Ids, a \in Ids}

\* ------------------------------------------------------- failures
StoreOps == {"ensure", "stage", "pop_read", "pop_del", "ins_user", "ins_ref",
             "upd_refby", "credit", "commit"}

\* The store operation task t is about to run raises (connection lost, deadlock
\* detected): an open transaction is rolled back and the exception ends the handler.
StoreFail(t) ==
    /\ tasks[t].pc \in StoreOps
    /\ tasks' = [tasks EXCEPT ![t] = FailedTask(tasks[t].pc, tasks[t].user)]
    /\ tx' = [tx EXCEPT ![t] = EmptyTx]
    /\ UNCHANGED <<store, SUB_CHANNELS, launched, history, driver>>

\* The process dies: every task is gone, every open transaction is rolled back.
Crash ==
    /\ \E t \in Tasks : Live(t)
    /\ tasks' = [t \in Tasks |-> IF Live(t) THEN FailedTask(tasks[t].pc, tasks[t].user)
                                  ELSE tasks[t]]
    /\ tx' = [t \in Tasks |-> EmptyTx]
    /\ UNCHANGED <<store, SUB_CHANNELS, launched, history, driver>>

\* ------------------------------------------------------- specification Spec
\* init_db on an empty database: the three tables exist and are empty.  The
\* deployment has no required channel, or MaxChannels of them.
InitStore ==
    /\ users = [i \in Ids |-> NoRow]
    /\ referrals = <<>>
    /\ pending_refs = {}
    /\ SUB_CHANNELS \in {[k \in 1..n |-> k] : n \in {0, MaxChannels}}
    /\ tasks = [t \in Tasks |-> IdleTask]
    /\ tx = [t \in Tasks |-> EmptyTx]
    /\ launched = 0
    /\ notified = [i \in Ids |-> 0]
    /\ applied_ret = [i \in Ids |-> 0]
    /\ staged = {}
    /\ double_take = FALSE
    /\ clobbered = FALSE

\* What a scenario compares: the tables and what the callers were told.
Snap ==
    [users |-> users, referrals |-> referrals, pending_refs |-> pending_refs,
     notified |-> notified, applied_ret |-> applied_ret]

\* Everything a scenario's variants start from.
Base ==
    [users |-> users, referrals |-> referrals, pending_refs |-> pending_refs,
     notified |-> notified, applied_ret |-> applied_ret, tasks |-> tasks,
     launched |-> launched, staged |-> staged, double_take |-> double_take,
     clobbered |-> clobbered]

NoScen == [id |-> "none", a |-> 0, r |-> 0, g |-> "any"]

InitDriver(ph) ==
    /\ phase = ph /\ scen = NoScen /\ variant = 0 /\ step = 0
    /\ base = Base /\ snaps = <<>>

Init == InitStore /\ InitDriver("free")

\* Updates arrive at any time and their handlers run concurrently.
Invoke ==
    /\ launched < MaxInvocations
    /\ launched' = launched + 1
    /\ \E call \in Calls : Launch(NextSlot, call)
    /\ UNCHANGED <<store, SUB_CHANNELS, tx, history, driver>>

Next ==
    \/ Invoke
    \/ \E t \in Tasks : on_start_ensure(t)
    \/ \E t \in Tasks : \E ans \in Answers : on_start_gate(t, ans)
    \/ \E t \in Tasks : \E ans \in Answers : cmd_check(t, ans)
    \/ \E t \in Tasks : \E ans \in Answers : cb_check_sub(t, ans)
    \/ \E t \in Tasks : \E ans \in Answers : auto_check_after_delay(t, ans)
    \/ \E t \in Tasks : add_pending_ref(t)
    \/ \E t \in Tasks : pop_select(t)
    \/ \E t \in Tasks : pop_delete(t)
    \/ \E t \in Tasks : apply_enter(t)
    \/ \E t \in Tasks : apply_ins_user(t)
    \/ \E t \in Tasks : apply_ins_ref(t)
    \/ \E t \in Tasks : apply_upd_refby(t)
    \/ \E t \in Tasks : apply_credit(t)
    \/ \E t \in Tasks : apply_commit(t)
    \/ \E t \in Tasks : notify_admins(t)
    \/ \E t \in Tasks : StoreFail(t)
    \/ Crash

Spec == Init /\ [][Next]_vars

\* ======================================================= specification SpecHandlers
\* Spec without direct calls of apply_referral: every change of the store comes
\* from on_start, cmd_check, cb_check_sub or auto_check_after_delay.
HandlerCalls == {call \in Calls : call.kind # "credit"}

InvokeHandler ==
    /\ launched < MaxInvocations
    /\ launched' = launched + 1
    /\ \E call \in HandlerCalls : Launch(NextSlot, call)
    /\ UNCHANGED <<store, SUB_CHANNELS, tx, history, driver>>

NextHandlers ==
    \/ InvokeHandler
    \/ \E t \in Tasks : on_start_ensure(t)
    \/ \E t \in Tasks : \E ans \in Answers : on_start_gate(t, ans)
    \/ \E t \in Tasks : \E ans \in Answers : cmd_check(t, ans)
    \/ \E t \in Tasks : \E ans \in Answers : cb_check_sub(t, ans)
    \/ \E t \in Tasks : \E ans \in Answers : auto_check_after_delay(t, ans)
    \/ \E t \in Tasks : add_pending_ref(t)
    \/ \E t \in Tasks : pop_select(t)
    \/ \E t \in Tasks : pop_delete(t)
    \/ \E t \in Tasks : apply_ins_user(t)
    \/ \E t \in Tasks : apply_ins_ref(t)
    \/ \E t \in Tasks : apply_upd_refby(t)
    \/ \E t \in Tasks : apply_credit(t)
    \/ \E t \in Tasks : apply_commit(t)
    \/ \E t \in Tasks : notify_admins(t)
    \/ \E t \in Tasks : StoreFail(t)
    \/ Crash

SpecHandlers == Init /\ [][NextHandlers]_vars

\* ======================================================= properties of Spec
HasEvent(rows, r) == \E k \in 1..Len(rows) : rows[k].referred_id = r
HasPending(rows, r) == \E p \in rows : p.referred_id = r
\* Number of ledger rows whose referrer is i.
EventsOf(rows, i) == Cardinality({k \in 1..Len(rows) : rows[k].referrer_id = i})
\* Task t is inside apply_referral's transaction.
InTx(t) == tasks[t].pc \in {"ins_user", "ins_ref", "upd_refby", "credit", "commit"}

\* C2: in every committed state, also after a failure or crash at any store
\* operation of apply_referral, each user's referrals_count is the number of ledger
\* rows naming that user as referrer and the balance is BONUS_PER_REF times it.
C2_CreditMatchesLedger ==
    \A i \in Ids :
        /\ users[i].referrals_count = EventsOf(referrals, i)
        /\ users[i].balance = BONUS_PER_REF * EventsOf(referrals, i)

\* A transaction was cut down after its ledger insert, and another one committed.
C2_Witness ==
    /\ \E t \in Tasks : tasks[t].pc = "failed" /\ tasks[t].kind \in {"upd_refby", "credit", "commit"}
    /\ Len(referrals) = 1

\* C4: the ledger never holds two rows for one referred id, and a row once
\* committed stays as it is, whatever handlers and direct calls run.
C4_UniqueImmutableLedger ==
    /\ [](\A j, k \in 1..Len(referrals) :
              referrals[j].referred_id = referrals[k].referred_id => j = k)
    /\ [][\A k \in 1..Len(referrals) :
              Len(referrals') >= k /\ referrals'[k] = referrals[k]]_vars

\* A second referrer is about to be refused for an already credited referred id.
C4_Witness ==
    \E t \in Tasks : \E k \in 1..Len(referrals) :
        /\ tasks[t].pc = "ins_ref"
        /\ referrals[k].referred_id = tasks[t].user
        /\ referrals[k].referrer_id # tasks[t].ref

\* A step of task t that is a self-claim: a direct apply_referral(x, x), or /start
\* whose payload is the sender's own id.
SelfStep(t) ==
    /\ tasks[t].kind \in {"credit", "start"}
    /\ tasks[t].ref = tasks[t].user
    /\ tasks'[t] # tasks[t]

\* C5: a self-referral writes no ledger row, no pending claim and no credit, and
\* apply_referral(x, x) returns False with the store untouched; so no ledger row
\* and no pending claim ever has its referrer equal to its referred id.
C5_SelfReferralNeverCounts ==
    /\ [](/\ \A k \in 1..Len(referrals) : referrals[k].referrer_id # referrals[k].referred_id
          /\ \A p \in pending_refs : p.referrer_id # p.referred_id)
    /\ [][\A t \in Tasks : SelfStep(t) =>
              /\ referrals' = referrals /\ pending_refs' = pending_refs
              /\ applied_ret' = applied_ret /\ staged' = staged
              /\ \A i \in Ids : users'[i] = users[i] \/ (~users[i].exists /\ users'[i] = NewRow)
              /\ tasks[t].kind = "credit" => users' = users
              /\ tasks'[t].pc \in {"gate", "sleep", "done", "failed"}]_vars

\* A direct apply_referral(x, x) has returned, and /start x by x passed its gate.
C5_Witness ==
    /\ tasks[1] = DoneTask
    /\ tasks[2].kind = "start" /\ tasks[2].ref = tasks[2].user /\ tasks[2].pc = "gate"
    /\ referrals = <<>> /\ pending_refs = {}

\* Notifications for referred id r that are due: a caller is in its `if applied:`.
Notifying(r) == Cardinality({t \in Tasks : tasks[t].pc = "notify" /\ tasks[t].user = r})

\* C7: for each referred id at most one ReferralApplied notification is emitted,
\* and only by a caller whose apply_referral returned True.
C7_NotifyAtMostOnce ==
    \A r \in Ids : notified[r] + Notifying(r) <= applied_ret[r] /\ applied_ret[r] <= 1

\* Two resolvers took the same claim and exactly one notification went out.
C7_Witness == double_take /\ \E r \in Ids : notified[r] = 1

\* C6: pop_pending_ref reads and deletes as one step: no two calls return the
\* referrer of one staged claim, none deletes a claim written after its read.
C6_TakeClaimAtomic == ~double_take /\ ~clobbered

\* Task t has taken the claim of referred id r and not yet finished crediting it.
Resolving(t, r) == tasks[t].user = r /\ (tasks[t].pc = "pop_del" \/ InTx(t))

\* C8: a referred id a claim was staged for still has its pending claim, or has a
\* ledger row, or a running handler holds the claim; no failure loses it.
C8_DeferredClaimNeverLost ==
    \A r \in staged :
        \/ HasPending(pending_refs, r)
        \/ HasEvent(referrals, r)
        \/ \E t \in Tasks : Resolving(t, r)

\* The pending rows of referred id r.
PendingOf(rows, r) == {p \in rows : p.referred_id = r}

\* C14: /start a by r, a # r, under a failing gate writes no ledger row and no
\* credit and leaves exactly one pending claim for r, the one it brought (the later
\* write replaces an earlier claim); pending_refs never holds two claims for one
\* referred id; only such a /start ever stages.
C14_StagedOnceLastWriteWins ==
    /\ [](/\ \A p, q \in pending_refs : p.referred_id = q.referred_id => p = q
          /\ \A t \in Tasks : tasks[t].pc = "stage" =>
                /\ tasks[t].ref \in Ids /\ tasks[t].ref # tasks[t].user
                /\ SUB_CHANNELS # <<>>)
    /\ [][\A t \in Tasks : (tasks[t].pc = "stage" /\ tasks'[t].pc = "sleep") =>
              /\ referrals' = referrals /\ users' = users /\ applied_ret' = applied_ret
              /\ PendingOf(pending_refs', tasks[t].user)
                    = {[referred_id |-> tasks[t].user, referrer_id |-> tasks[t].ref]}
              /\ \A r \in Ids \ {tasks[t].user} :
                    PendingOf(pending_refs', r) = PendingOf(pending_refs, r)]_vars

\* A second claim with another referrer is about to replace the staged one.
C14_Witness ==
    \E t \in Tasks : \E p \in pending_refs :
        /\ tasks[t].pc = "stage"
        /\ p.referred_id = tasks[t].user
        /\ p.referrer_id # tasks[t].ref

\* An answer in which some channel's query raised or gave a status outside the
\* allow-list.
Refusing(ans) == \E k \in 1..Len(SUB_CHANNELS) : ans[k] \in {"left", "error"}

\* C15: the gate fails closed.  For a raised error or a status outside the
\* allow-list is_member_of answers False, and any such channel makes
\* is_subscribed_everywhere False; a handler whose gate query got such an answer
\* goes on as an ordinary refusal (it is not ended by the error) and credits
\* nothing: /start with a claim goes to add_pending_ref, every re-check returns.
C15_GateFailsClosed ==
    /\ [](/\ ~is_member_of("error") /\ ~is_member_of("left")
          /\ \A ans \in Answers : Refusing(ans) => ~is_subscribed_everywhere(ans))
    /\ [][\A t \in Tasks : \A ans \in Answers : Refusing(ans) =>
              /\ on_start_gate(t, ans) =>
                    /\ tasks'[t].pc = IF StartClaims(tasks[t].user, tasks[t].ref)
                                      THEN "stage" ELSE "sleep"
                    /\ store' = store /\ applied_ret' = applied_ret
              /\ (cmd_check(t, ans) \/ cb_check_sub(t, ans) \/ auto_check_after_delay(t, ans)) =>
                    /\ tasks'[t] = DoneTask
                    /\ store' = store /\ applied_ret' = applied_ret]_vars

\* Channels are required and a /start claim was sent to staging by a refused gate.
C15_Witness ==
    /\ SUB_CHANNELS # <<>>
    /\ \E t \in Tasks : tasks[t].kind = "start" /\ tasks[t].pc = "stage"
    /\ \E t \in Tasks : tasks[t].kind = "none" /\ tasks[t].pc = "done"

\* The orders in which the configured channels can be listed.
ChannelOrders ==
    {f \in [1..Len(SUB_CHANNELS) -> 1..Len(SUB_CHANNELS)] :
        \A j, k \in 1..Len(SUB_CHANNELS) : f[j] = f[k] => j = k}

\* C16: for every channel list and every assignment of per-channel answers,
\* is_subscribed_everywhere is True exactly when no channel is configured or
\* is_member_of holds for every channel, and listing the channels in another
\* order gives the same result.
C16_GateIsConjunction ==
    \A ans \in Answers :
        /\ is_subscribed_everywhere(ans) =
              (SUB_CHANNELS = <<>> \/ \A k \in 1..Len(SUB_CHANNELS) : is_member_of(ans[k]))
        /\ \A f \in ChannelOrders :
              is_subscribed_everywhere([k \in 1..Len(SUB_CHANNELS) |-> ans[f[k]]])
                  = is_subscribed_everywhere(ans)

\* With MaxChannels channels configured one handler was let through the gate and
\* another was refused.
C16_Witness ==
    /\ Len(SUB_CHANNELS) = MaxChannels
    /\ \E t \in Tasks : tasks[t].pc = "pop_read"
    /\ \E t \in Tasks : tasks[t].pc = "stage"

\* C17: ref_by is write-once: whatever handlers and direct calls run and however
\* they interleave or fail, a users row whose ref_by holds a value keeps the row
\* and that value in every later committed state.
C17_RefByWriteOnce ==
    [][\A i \in Ids : users[i].ref_by # NULL =>
            users'[i].exists /\ users'[i].ref_by = users[i].ref_by]_vars

\* A user whose ref_by is set sends /start again, or is claimed by another referrer.
C17_Witness ==
    \/ \E t \in Tasks : tasks[t].pc = "ensure" /\ users[tasks[t].user].ref_by # NULL
    \/ \E t \in Tasks : /\ tasks[t].pc = "ins_ref"
                        /\ users[tasks[t].user].ref_by \notin {NULL, tasks[t].ref}

\* C19 (SpecHandlers): in every state the handlers produce, users[r].ref_by = a
\* exactly when the ledger holds the row (a, r); the referred user and the referrer
\* of every ledger row have a users row.
C19_LedgerMatchesRefBy ==
    /\ \A r \in Ids : \A a \in Ids :
          (users[r].exists /\ users[r].ref_by = a)
              <=> (\E k \in 1..Len(referrals) :
                      referrals[k].referrer_id = a /\ referrals[k].referred_id = r)
    /\ \A k \in 1..Len(referrals) :
          users[referrals[k].referred_id].exists /\ users[referrals[k].referrer_id].exists

\* One referral is committed and another transaction was cut down after its
\* UPDATE of ref_by.
C19_Witness ==
    /\ Len(referrals) = 1
    /\ \E t \in Tasks : tasks[t].pc = "failed" /\ tasks[t].kind \in {"credit", "commit"}

\* ======================================================= specification SpecScen
\* Scenarios: after a prefix of handler invocations run one after the other from the
\* empty database, a scenario runs each of its variants from the same state (base)
\* and records the state each variant ends in (snaps).
\*   race     N concurrent apply_referral(a, r), no ledger row for r before
\*   twice    apply_referral(a, r) once; apply_referral(a, r) twice in sequence
\*   paths    /start a by r with the gate passing; /start a by r with the gate
\*            failing, then /check by r with the gate passing
\*   recheck  auto_check_after_delay(r); /check by r; check_sub by r; gate answer g
\*   late     apply_referral(a, r) when the ledger already has a row for r
\*   stale    /start a by r with the gate passing, then /start b by r with the
\*            gate failing; the same followed by /check by r with the gate passing
\*   resolve  /check by r once; /check by r twice in sequence; the gate passing and
\*            a claim staged for r
Scenarios ==
    {[id |-> i, a |-> a, r |-> r, g |-> "any"] :
        i \in {"race", "twice", "paths", "late", "stale"}, a \in Ids, r \in Ids}
        \cup {[id |-> "recheck", a |-> 0, r |-> r, g |-> g] : r \in Ids, g \in {"pass", "fail"}}
        \cup {[id |-> "resolve", a |-> 0, r |-> r, g |-> "pass"] : r \in Ids}

\* A referrer other than a and other than r.
OtherId(a, r) == CHOOSE i \in Ids : i \notin {a, r}

Script(sc, v) ==
    CASE sc.id = "race" -> [k \in 1..(NumTasks - base.launched) |-> Call("credit", sc.r, sc.a, "any")]
      [] sc.id = "twice" -> [k \in 1..v |-> Call("credit", sc.r, sc.a, "any")]
      [] sc.id = "paths" ->
            IF v = 1 THEN <<Call("start", sc.r, sc.a, "pass")>>
            ELSE <<Call("start", sc.r, sc.a, "fail"), Call("check", sc.r, 0, "pass")>>
      [] sc.id = "recheck" ->
            <<Call(CASE v = 1 -> "auto" [] v = 2 -> "check" [] OTHER -> "cb", sc.r, 0, sc.g)>>
      [] sc.id = "late" -> <<Call("credit", sc.r, sc.a, "any")>>
      [] sc.id = "stale" ->
            LET credited == <<Call("start", sc.r, sc.a, "pass"),
                              Call("start", sc.r, OtherId(sc.a, sc.r), "fail")>> IN
            IF v = 1 THEN credited ELSE Append(credited, Call("check", sc.r, 0, "pass"))
      [] sc.id = "resolve" -> [k \in 1..v |-> Call("check", sc.r, 0, "pass")]

Variants(sc) == CASE sc.id \in {"race", "late"} -> 1 [] sc.id = "recheck" -> 3 [] OTHER -> 2

\* Slots the scenario needs.
Need(sc) ==
    CASE sc.id \in {"twice", "paths", "resolve"} -> 2
      [] sc.id = "stale" -> 3
      [] OTHER -> 1

\* What the scenario asks of the state it starts from.
Pre(sc) ==
    /\ sc.id \in {"race", "twice", "paths", "late", "stale"} => sc.a # sc.r
    /\ sc.id = "late" => UniqueViolation(referrals, sc.r)
    /\ sc.id \in {"race", "twice"} => ~UniqueViolation(referrals, sc.r)
    /\ (sc.id = "paths" \/ sc.g = "fail") => SUB_CHANNELS # <<>>
    /\ sc.id = "resolve" => HasPending(pending_refs, sc.r)
    /\ sc.id = "stale" => SUB_CHANNELS # <<>>

AllDone == \A t \in Tasks : ~Live(t)
Resting(t) == ~Live(t) \/ tasks[t].pc = "sleep"

\* Handlers run one at a time, except in the race.
MayStep(t) ==
    /\ phase \in {"setup", "run"}
    /\ scen.id = "race" \/ \A o \in Tasks \ {t} : Resting(o)

SetupCall ==
    /\ phase = "setup" /\ AllDone
    /\ launched < NumTasks - 2
    /\ launched' = launched + 1
    /\ \E call \in Calls : Launch(NextSlot, call)
    /\ UNCHANGED <<store, SUB_CHANNELS, tx, history, driver>>

Begin ==
    /\ phase = "setup" /\ AllDone
    /\ \E sc \in Scenarios :
        /\ launched + Need(sc) <= NumTasks
        /\ Pre(sc)
        /\ scen' = sc
    /\ phase' = "run" /\ variant' = 1 /\ step' = 0 /\ base' = Base /\ snaps' = <<>>
    /\ UNCHANGED <<store, SUB_CHANNELS, tasks, tx, launched, history>>

ScriptCall ==
    /\ phase = "run"
    /\ step < Len(Script(scen, variant))
    /\ scen.id = "race" \/ \A t \in Tasks : Resting(t)
    /\ Launch(NextSlot, Script(scen, variant)[step + 1])
    /\ launched' = launched + 1
    /\ step' = step + 1
    /\ UNCHANGED <<store, SUB_CHANNELS, tx, history, phase, scen, variant, base, snaps>>

EndVariant ==
    /\ phase = "run" /\ AllDone
    /\ IF scen.id = "race" THEN step >= 1 ELSE step = Len(Script(scen, variant))
    /\ snaps' = Append(snaps, Snap)
    /\ IF variant < Variants(scen)
       THEN /\ variant' = variant + 1 /\ step' = 0
            /\ users' = base.users /\ referrals' = base.referrals
            /\ pending_refs' = base.pending_refs /\ notified' = base.notified
            /\ applied_ret' = base.applied_ret /\ tasks' = base.tasks
            /\ launched' = base.launched /\ staged' = base.staged
            /\ double_take' = base.double_take /\ clobbered' = base.clobbered
            /\ UNCHANGED phase
       ELSE /\ phase' = "end"
            /\ UNCHANGED <<store, tasks, launched, history, variant, step>>
    /\ UNCHANGED <<SUB_CHANNELS, tx, scen, base>>

InitScen == InitStore /\ InitDriver("setup")

NextScen ==
    \/ SetupCall
    \/ Begin
    \/ ScriptCall
    \/ EndVariant
    \/ \E t \in Tasks : MayStep(t) /\ on_start_ensure(t)
    \/ \E t \in Tasks : \E ans \in Answers : MayStep(t) /\ on_start_gate(t, ans)
    \/ \E t \in Tasks : \E ans \in Answers : MayStep(t) /\ cmd_check(t, ans)
    \/ \E t \in Tasks : \E ans \in Answers : MayStep(t) /\ cb_check_sub(t, ans)
    \/ \E t \in Tasks : \E ans \in Answers : MayStep(t) /\ auto_check_after_delay(t, ans)
    \/ \E t \in Tasks : MayStep(t) /\ add_pending_ref(t)
    \/ \E t \in Tasks : MayStep(t) /\ pop_select(t)
    \/ \E t \in Tasks : MayStep(t) /\ pop_delete(t)
    \/ \E t \in Tasks : MayStep(t) /\ apply_enter(t)
    \/ \E t \in Tasks : MayStep(t) /\ apply_ins_user(t)
    \/ \E t \in Tasks : MayStep(t) /\ apply_ins_ref(t)
    \/ \E t \in Tasks : MayStep(t) /\ apply_upd_refby(t)
    \/ \E t \in Tasks : MayStep(t) /\ apply_credit(t)
    \/ \E t \in Tasks : MayStep(t) /\ apply_commit(t)
    \/ \E t \in Tasks : MayStep(t) /\ notify_admins(t)

SpecScen == InitScen /\ [][NextScen]_vars

\* ======================================================= properties of SpecScen
AtEnd(id) == phase = "end" /\ scen.id = id
Tables(s) == <<s.users, s.referrals, s.pending_refs>>
Event(a, r) == [referrer_id |-> a, referred_id |-> r]

\* C1: of N concurrent apply_referral(a, r), a # r, r not credited before, exactly
\* one returns True; the ledger gains the one row (a, r) and a's referrals_count
\* and balance gain exactly one referral and one bonus.
C1_RaceOneWinner ==
    AtEnd("race") =>
        /\ snaps[1].applied_ret[scen.r] = base.applied_ret[scen.r] + 1
        /\ snaps[1].referrals = Append(base.referrals, Event(scen.a, scen.r))
        /\ snaps[1].users[scen.a].referrals_count = base.users[scen.a].referrals_count + 1
        /\ snaps[1].users[scen.a].balance = base.users[scen.a].balance + BONUS_PER_REF

\* All the slots raced for one pair and every call has returned.
C1_Witness == AtEnd("race") /\ step = NumTasks

\* C3: apply_referral(a, r) called twice in sequence, r not credited before: the
\* first call returns True, the second returns False and leaves the tables as the
\* first left them; a's balance rose by one bonus in total.
C3_SecondCallNoOp ==
    AtEnd("twice") =>
        /\ snaps[1].applied_ret[scen.r] = base.applied_ret[scen.r] + 1
        /\ snaps[2].applied_ret[scen.r] = base.applied_ret[scen.r] + 1
        /\ Tables(snaps[2]) = Tables(snaps[1])
        /\ snaps[2].users[scen.a].balance = base.users[scen.a].balance + BONUS_PER_REF

\* The two calls ran on a store that already held another referral.
C3_Witness == AtEnd("twice") /\ Len(base.referrals) = 1

\* C9 as stated: from any store, the deferred path (/start under a failing gate,
\* then /check under a passing one) ends with the tables of the direct path
\* (/start under a passing gate) and no pending claim for r.
C9_DeferredEqualsDirect ==
    AtEnd("paths") =>
        /\ Tables(snaps[2]) = Tables(snaps[1])
        /\ ~HasPending(snaps[1].pending_refs, scen.r)
        /\ ~HasPending(snaps[2].pending_refs, scen.r)

\* C9 amended: the same, from a store that holds no pending claim for r; and if r
\* was not credited before, both paths end with the ledger row (a, r), r's ref_by
\* set to a and a credited once.
C9_DeferredEqualsDirectNoStale ==
    (AtEnd("paths") /\ ~HasPending(base.pending_refs, scen.r)) =>
        /\ Tables(snaps[2]) = Tables(snaps[1])
        /\ ~HasPending(snaps[1].pending_refs, scen.r)
        /\ ~HasPending(snaps[2].pending_refs, scen.r)
        /\ ~HasEvent(base.referrals, scen.r) =>
              /\ snaps[2].referrals = Append(base.referrals, Event(scen.a, scen.r))
              /\ snaps[2].users[scen.r].ref_by = scen.a
              /\ snaps[2].users[scen.a].referrals_count = base.users[scen.a].referrals_count + 1
              /\ snaps[2].users[scen.a].balance = base.users[scen.a].balance + BONUS_PER_REF

\* Both paths credited a referred id that had nothing pending and no ledger row.
C9_Witness ==
    /\ AtEnd("paths")
    /\ ~HasPending(base.pending_refs, scen.r)
    /\ ~HasEvent(base.referrals, scen.r)
    /\ HasEvent(snaps[2].referrals, scen.r)

\* C10: from the same store and under the same gate answer, auto_check_after_delay,
\* cmd_check and cb_check_sub leave the same users, ledger and pending claims and
\* emit the same notifications.
C10_RechecksAgree ==
    AtEnd("recheck") => snaps[1] = snaps[2] /\ snaps[2] = snaps[3]

\* The three re-checks each credited a pending claim and announced it.
C10_Witness ==
    /\ AtEnd("recheck") /\ scen.g = "pass"
    /\ snaps[3].notified[scen.r] = base.notified[scen.r] + 1
    /\ HasPending(base.pending_refs, scen.r)

\* What base holds of the things a snapshot records.
BaseSnap ==
    [users |-> base.users, referrals |-> base.referrals,
     pending_refs |-> base.pending_refs, notified |-> base.notified,
     applied_ret |-> base.applied_ret]

\* C12: a re-check of r (automatic, /check or check_sub) whose gate query fails
\* leaves users, ledger and pending claims as they were, credits and announces
\* nothing; a claim staged for r is still there with the same referrer.
C12_BlockedRecheckChangesNothing ==
    (AtEnd("recheck") /\ scen.g = "fail") =>
        \A v \in 1..3 :
            /\ snaps[v] = BaseSnap
            /\ \A p \in base.pending_refs : p.referred_id = scen.r => p \in snaps[v].pending_refs

\* The three re-checks were refused while a claim for r was staged.
C12_Witness ==
    /\ AtEnd("recheck") /\ scen.g = "fail"
    /\ HasPending(base.pending_refs, scen.r)
    /\ Len(snaps) = 3

\* A handler is past pop_pending_ref's SELECT with a referrer in hand.
TookClaim(t) == tasks[t].pc = "pop_del" \/ InTx(t) \/ tasks[t].pc = "notify"

\* C13: with the gate passing and a claim staged for r, the first /check takes the
\* claim (pending_refs loses it) and attempts its credit (the ledger has a row for
\* r afterwards); a second /check after the first has returned finds nothing
\* pending, never gets a referrer, and leaves the store as the first left it.
C13_SecondResolveNothingPending ==
    /\ (phase = "run" /\ scen.id = "resolve" /\ variant = 2 /\ step = 2) =>
            \A t \in Tasks : ~TookClaim(t)
    /\ AtEnd("resolve") =>
            /\ ~HasPending(snaps[1].pending_refs, scen.r)
            /\ HasEvent(snaps[1].referrals, scen.r)
            /\ snaps[2] = snaps[1]

\* The first /check credited the staged claim, the second has returned too.
C13_Witness ==
    /\ AtEnd("resolve")
    /\ snaps[2].applied_ret[scen.r] = base.applied_ret[scen.r] + 1
    /\ snaps[2].notified[scen.r] = base.notified[scen.r] + 1

\* C18: apply_referral(b, r), b # r, called when the ledger already has a row for r
\* (recorded for b or for somebody else) returns False and leaves every users row
\* (balance, referrals_count, ref_by, and which rows exist), the ledger and the
\* pending claims as they were.
C18_LateCreditNoOp ==
    AtEnd("late") => snaps[1] = BaseSnap

\* The late call named a referrer other than the recorded one, who had no row.
C18_Witness ==
    /\ AtEnd("late")
    /\ \E k \in 1..Len(base.referrals) :
          base.referrals[k].referred_id = scen.r /\ base.referrals[k].referrer_id # scen.a
    /\ ~base.users[scen.a].exists

\* C20 as stated: a referred id that has a ledger row has no pending claim.
C20_NoPendingForCredited ==
    \A r \in Ids : HasEvent(referrals, r) => ~HasPending(pending_refs, r)

\* C20 amended: a claim can be staged for a user who is already credited (/start
\* under a failing gate does not look at the ledger); the next re-check of that
\* user with the gate passing removes the claim and credits nobody: users, ledger,
\* apply_referral's True returns and notifications stay as they were.
C20_StaleClaimHarmless ==
    AtEnd("stale") =>
        /\ ~HasPending(snaps[2].pending_refs, scen.r)
        /\ snaps[2].users = snaps[1].users
        /\ snaps[2].referrals = snaps[1].referrals
        /\ snaps[2].applied_ret = snaps[1].applied_ret
        /\ snaps[2].notified = snaps[1].notified
        /\ snaps[2].referrals = <<Event(scen.a, scen.r)>>

\* The credited user still had the later claim staged before the re-check ran.
C20_Witness ==
    /\ AtEnd("stale")
    /\ HasEvent(snaps[1].referrals, scen.r)
    /\ [referred_id |-> scen.r, referrer_id |-> OtherId(scen.a, scen.r)] \in snaps[1].pending_refs

\* ======================================================= specification SpecLive
\* The handlers alone, the store always reachable, every started handler running on
\* (weak fairness); the 15 s re-check may also never wake.  The gate answers freely
\* while phase = "blocked" and passes for everybody from Open on.  The only
\* exception a statement raises here is PostgreSQL's deadlock_detected.
NumLiveIds == 2
NumLiveTasks == 2
MaxLiveCalls == 3
LiveIds == 1..NumLiveIds
LiveTasks == 1..NumLiveTasks

\* The membership authority's answer once the users have joined every channel.
GateOpen(ans) == phase = "open" => is_subscribed_everywhere(ans)

\* The statement task t is about to run waits for a lock transaction o holds.
WaitsFor(t, o) ==
    /\ o # t
    /\ LET a == tasks[t].ref
           r == tasks[t].user IN
        \/ tasks[t].pc = "ins_user" /\ ~users[a].exists /\ a \in tx[o].wr
        \/ tasks[t].pc = "ins_ref"
              /\ \E k \in 1..Len(tx[o].refs) : tx[o].refs[k].referred_id = r
        \/ tasks[t].pc = "upd_refby" /\ View(t, r).exists /\ r \in tx[o].wr
        \/ tasks[t].pc = "credit" /\ View(t, a).exists /\ a \in tx[o].wr

RECURSIVE WaitClosure(_)
\* The transactions the tasks of S wait for, directly or through others.
WaitClosure(S) ==
    LET more == S \cup {o \in Tasks : \E t \in S : WaitsFor(t, o)} IN
        IF more = S THEN S ELSE WaitClosure(more)

\* Task t is on a cycle of waiting transactions.
InDeadlock(t) == t \in WaitClosure({o \in Tasks : WaitsFor(t, o)})

\* PostgreSQL breaks the cycle: the statement of one transaction on it raises
\* DeadlockDetectedError, the transaction is rolled back, the handler ends.
DeadlockAbort(t) ==
    /\ InDeadlock(t)
    /\ tasks' = [tasks EXCEPT ![t] = FailedTask(tasks[t].pc, tasks[t].user)]
    /\ tx' = [tx EXCEPT ![t] = EmptyTx]
    /\ UNCHANGED <<store, SUB_CHANNELS, launched, history, driver>>

\* The updates users send: /start with a referrer's id (their own included) and
\* /check, the explicit re-check.
LiveCalls ==
    {Call("start", u, p, "any") : u \in LiveIds, p \in LiveIds}
        \cup {Call("check", u, 0, "any") : u \in LiveIds}

\* The lowest slot whose handler has returned (or never ran) takes the next update.
FreeSlot(t) ==
    /\ tasks[t].pc \in {"idle", "done"}
    /\ \A o \in LiveTasks : o < t => tasks[o].pc \notin {"idle", "done"}

LiveInvoke ==
    /\ launched < MaxLiveCalls
    /\ launched' = launched + 1
    /\ \E t \in LiveTasks : FreeSlot(t) /\ \E call \in LiveCalls : Launch(t, call)
    /\ UNCHANGED <<store, SUB_CHANNELS, tx, history, driver>>

\* The users have joined every channel: from now on every gate query passes.
Open ==
    /\ phase = "blocked"
    /\ phase' = "open"
    /\ UNCHANGED <<store, SUB_CHANNELS, tasks, tx, launched, history,
                   scen, variant, step, base, snaps>>

\* One step of the handler running in slot t, the wake-up after the sleep excepted.
HandlerStep(t) ==
    \/ on_start_ensure(t)
    \/ \E ans \in Answers : GateOpen(ans) /\ on_start_gate(t, ans)
    \/ \E ans \in Answers : GateOpen(ans) /\ cmd_check(t, ans)
    \/ add_pending_ref(t)
    \/ pop_select(t)
    \/ pop_delete(t)
    \/ apply_ins_user(t)
    \/ apply_ins_ref(t)
    \/ apply_upd_refby(t)
    \/ apply_credit(t)
    \/ apply_commit(t)
    \/ notify_admins(t)

\* The automatic re-check wakes after its sleep (it need not, see the fairness).
AutoWake(t) == \E ans \in Answers : GateOpen(ans) /\ auto_check_after_delay(t, ans)

InitLive == InitStore /\ InitDriver("blocked")

NextLive ==
    \/ LiveInvoke
    \/ Open
    \/ \E t \in Tasks : HandlerStep(t)
    \/ \E t \in Tasks : AutoWake(t)
    \/ \E t \in Tasks : DeadlockAbort(t)

SpecLive ==
    /\ InitLive /\ [][NextLive]_vars
    /\ \A t \in Tasks : WF_vars(HandlerStep(t))
    /\ WF_vars(\E t \in Tasks : DeadlockAbort(t))

\* ======================================================= properties of SpecLive
\* An explicit re-check by r (/check) is at its gate query, the gate
\* passes from now on and r's claim is in pending_refs.
ExplicitRecheckDue(r) ==
    /\ phase = "open"
    /\ HasPending(pending_refs, r)
    /\ \E t \in Tasks : /\ tasks[t].kind = "check"
                        /\ tasks[t].user = r /\ tasks[t].pc = "gate"

\* A handler working for referred id r was ended by an exception.
Aborted(r) == \E t \in Tasks : tasks[t].pc = "failed" /\ tasks[t].user = r

\* C11: a claim is staged for r, the gate passes from some point on and r then
\* invokes the explicit re-check: eventually the ledger holds a row for r,
\* whether or not the automatic re-check ever wakes.
C11_ExplicitRecheckCredits ==
    \A r \in LiveIds : ExplicitRecheckDue(r) ~> HasEvent(referrals, r)

\* The same, except in the runs where a deadlock ended a handler working for r.
C11_CreditsUnlessAborted ==
    \A r \in LiveIds : ExplicitRecheckDue(r) ~> (HasEvent(referrals, r) \/ Aborted(r))

====
